---------------------------- MODULE Spec2Model ----------------------------
(***************************************************************************)
(* The authoritative game-state server of buildnow.js                      *)
(* (src/assets/firebase-auth.js, lines 117-253): the world (players,       *)
(* builds, build-id counter), the per-socket handlers (connection, move,   *)
(* shoot, placeBuild, disconnect) and the 20 Hz worldState broadcast.      *)
(*                                                                         *)
(* JavaScript values.  Numbers are integers here.  NaN and undefined are   *)
(* two reserved integers outside every range the model uses; every         *)
(* operator that reads a number treats them as JavaScript does (NaN        *)
(* propagates through arithmetic, every comparison with NaN is false).     *)
(* A payload that was not sent at all (the handler's `data` is undefined)  *)
(* has defined = FALSE; a missing object field (origin, direction) is the  *)
(* empty tuple.                                                            *)
(*                                                                         *)
(* Socket ids are the integers 1, 2, ... in connection order: socket.io    *)
(* gives every connection a fresh id, so an id is never used twice, and    *)
(* Object.entries(world.players) iterates in insertion order, which is     *)
(* ascending id.                                                           *)
(***************************************************************************)
EXTENDS Integers, Sequences, FiniteSets, TLC

\* ------------------------------------------------------------- bounds
\* Connections accepted over the process lifetime.
MaxSessions == 3
\* Largest build id handed out over the process lifetime.
MaxBuildId == 2
\* Events (connections, commands, disconnects, timer ticks) the event loop
\* dispatches over the run.
MaxSteps == 5
\* The same, for the runs of well-formed commands that reach a respawn (two
\* connections and five hits).
MaxDuelSteps == 7
\* Shots fired at a drawn arrangement of players.
MaxAimSteps == 1
\* Events delivered to the client of one browser page.
MaxClientSteps == 3

\* ------------------------------------------------- program constants
ARENA_LIMIT == 50
\* victim.health -= 20
DAMAGE == 20
\* health: 100 at spawn and at respawn
FULL_HEALTH == 100
\* y: 1 at spawn and at respawn
SPAWN_Y == 1

\* -------------------------------------------------- JavaScript values
NaN == 900001
Undefined == 900002
IsNum(v) == v # NaN /\ v # Undefined

Min2(a, b) == IF a <= b THEN a ELSE b
Max2(a, b) == IF a >= b THEN a ELSE b

\* Math.max(-ARENA_LIMIT, Math.min(ARENA_LIMIT, v)); NaN for undefined or NaN
clamp(v) == IF IsNum(v) THEN Max2(-ARENA_LIMIT, Min2(ARENA_LIMIT, v)) ELSE NaN

\* data.rotY || 0 : undefined, NaN and 0 are falsy
RotYOrZero(v) == IF IsNum(v) /\ v # 0 THEN v ELSE 0

\* (Math.random() - 0.5) * 30 for x and z: some of the values in [-15, 15)
SpawnXZ == { <<0, 0>>, <<-15, 14>> }

\* ------------------------------------------------------------ inputs
\* move payloads: above the limit on x, in range on y, below the limit on z;
\* a field missing; no payload
FarMove == [defined |-> TRUE, x |-> 1000, y |-> 1, z |-> -1000, rotationY |-> 3]
NoXMove == [defined |-> TRUE, x |-> Undefined, y |-> 1, z |-> 3, rotationY |-> 0]
NoPayloadMove ==
    [defined |-> FALSE, x |-> Undefined, y |-> Undefined, z |-> Undefined,
     rotationY |-> Undefined]
MovePayloads == { FarMove, NoXMove, NoPayloadMove }
MoveMalformed(data) ==
    \/ ~data.defined
    \/ ~IsNum(data.x) \/ ~IsNum(data.y) \/ ~IsNum(data.z)
    \/ ~IsNum(data.rotationY)

\* shoot payloads: along +z through x = 0, y = 1; the same origin pointing
\* away; a zero-length direction; no origin
AlongZShot == [defined |-> TRUE, origin |-> <<0, 1, -20>>, direction |-> <<0, 0, 1>>]
AwayShot == [defined |-> TRUE, origin |-> <<0, 1, -20>>, direction |-> <<0, 0, -1>>]
ZeroDirShot == [defined |-> TRUE, origin |-> <<0, 1, -20>>, direction |-> <<0, 0, 0>>]
NoOriginShot == [defined |-> TRUE, origin |-> <<>>, direction |-> <<0, 0, 1>>]
ShootPayloads == { AlongZShot, AwayShot, ZeroDirShot, NoOriginShot }
\* shoot payloads aimed at the arrangements of AimPositions: straight up the
\* line x = 0, z = 0 from below, with a unit and a longer direction; down
\* the same line; up from a point of that line that is on the sphere of a
\* player standing at (0, 1, 0); slanted through that sphere; and no
\* direction, from far away and from that point
UpShot == [defined |-> TRUE, origin |-> <<0, -5, 0>>, direction |-> <<0, 1, 0>>]
LongUpShot == [defined |-> TRUE, origin |-> <<0, -5, 0>>, direction |-> <<0, 2, 0>>]
DownShot == [defined |-> TRUE, origin |-> <<0, -5, 0>>, direction |-> <<0, -1, 0>>]
FeetShot == [defined |-> TRUE, origin |-> <<0, 1, 0>>, direction |-> <<0, 1, 0>>]
SlantShot == [defined |-> TRUE, origin |-> <<-3, -2, 0>>, direction |-> <<3, 4, 0>>]
ZeroDirFeetShot == [defined |-> TRUE, origin |-> <<0, 1, 0>>, direction |-> <<0, 0, 0>>]
AimShots ==
    { UpShot, LongUpShot, DownShot, FeetShot, SlantShot, AlongZShot,
      ZeroDirShot, ZeroDirFeetShot }
\* where the players stand when the shots above are fired: positions that
\* move commands reach
AimPositions == { <<0, 1, 0>>, <<0, 3, 0>>, <<0, -9, 0>>, <<0, 1, 5>> }
ShootMalformed(data) ==
    \/ ~data.defined
    \/ data.origin = <<>> \/ data.direction = <<>>

\* placeBuild payloads: the wall of the end-to-end scenario; an unknown type
\* far outside the arena; a payload without x; no payload
WallBuild == [defined |-> TRUE, type |-> "wall", x |-> 5, y |-> 1, z |-> 5, rotY |-> Undefined]
FarBuild == [defined |-> TRUE, type |-> "tower", x |-> 1000, y |-> -1000, z |-> 51, rotY |-> 2]
NoXBuild == [defined |-> TRUE, type |-> "floor", x |-> Undefined, y |-> 1, z |-> 5, rotY |-> 0]
NoPayloadBuild ==
    [defined |-> FALSE, type |-> "undefined", x |-> Undefined, y |-> Undefined,
     z |-> Undefined, rotY |-> Undefined]
BuildPayloads == { WallBuild, FarBuild, NoXBuild, NoPayloadBuild }
BuildMalformed(data) ==
    \/ ~data.defined
    \/ ~IsNum(data.x) \/ ~IsNum(data.y) \/ ~IsNum(data.z)
BUILD_TYPES == { "wall", "floor", "ramp", "roof" }

\* -------------------------------------------------------------- state
VARIABLES
    players,       \* world.players : socket id -> Player
    builds,        \* world.builds  : sequence of Build
    nextBuildId,   \* let nextBuildId
    nextSocket,    \* the id the next connection gets
    connected,     \* the sockets that are connected now
    crashed,       \* a handler threw: the Node process has ended
    emitted,       \* what the last handler emitted: <<[event, to, data]>>
    last,          \* the last handler that ran: [op, sid, malformed, hitId]
    steps,         \* events dispatched so far
    observed,      \* per Player, what each hit on it since its spawn showed:
                   \* <<[health, respawn]>>
    client         \* the state of one browser page: [myId, myMesh, myHealth,
                   \* otherPlayers, builds, scene, created]

vars ==
    <<players, builds, nextBuildId, nextSocket, connected, crashed, emitted,
      last, steps, observed, client>>

Sessions == 1..MaxSessions
\* every socket ever accepted: its handlers stay registered on its closure
Sockets == 1..(nextSocket - 1)
NoHit == 0

Handler(op, sid, malformed, hitId) ==
    [op |-> op, sid |-> sid, malformed |-> malformed, hitId |-> hitId]
Emit(event, to, data) == [event |-> event, to |-> to, data |-> data]

\* The page after its script has run: otherPlayers = {}, builds = {},
\* myId = null, myMesh = null (0 stands for null), setHealth(100), and no
\* mesh of a player or a build in the scene.  A mesh is an object: `created`
\* counts the meshes made so far and gives each its identity.
ClientStart ==
    [myId |-> 0, myMesh |-> 0, myHealth |-> FULL_HEALTH,
     otherPlayers |-> << >>, builds |-> << >>, scene |-> << >>, created |-> 0]

Init ==
    /\ players = << >>
    /\ builds = << >>
    /\ nextBuildId = 1
    /\ nextSocket = 1
    /\ connected = {}
    /\ crashed = FALSE
    /\ emitted = << >>
    /\ last = Handler("start", 0, FALSE, NoHit)
    /\ steps = 0
    /\ observed = << >>
    /\ client = ClientStart

\* An uncaught TypeError in a listener ends the Node process: the world,
\* which lives in its memory, and every connection are gone with it.
Throw(op, sid) ==
    /\ crashed' = TRUE
    /\ players' = << >>
    /\ builds' = << >>
    /\ nextBuildId' = 1
    /\ nextSocket' = nextSocket
    /\ connected' = {}
    /\ emitted' = << >>
    /\ last' = Handler(op, sid, TRUE, NoHit)

\* mutant of Discard: the handler reports the miss to everybody
DiscardAnnounced(op, sid, malformed) ==
    /\ emitted' = << Emit("playerHit", connected, [victimId |-> NoHit]) >>
    /\ last' = Handler(op, sid, malformed, NoHit)
    /\ UNCHANGED <<players, builds, nextBuildId, nextSocket, connected, crashed>>
\* a handler that returns without touching the world
Discard(op, sid, malformed) ==
    /\ emitted' = << >>
    /\ last' = Handler(op, sid, malformed, NoHit)
    /\ UNCHANGED <<players, builds, nextBuildId, nextSocket, connected, crashed>>

\* mutant of Spawn: the spawn square is twice as wide
SpawnWide(xz) ==
    [x |-> 2 * xz[1], y |-> SPAWN_Y, z |-> 2 * xz[2], rotationY |-> 0,
     health |-> FULL_HEALTH]
\* const spawn = {...}
Spawn(xz) ==
    [x |-> xz[1], y |-> SPAWN_Y, z |-> xz[2], rotationY |-> 0, health |-> FULL_HEALTH]

\* io.on('connection')
Connect(xz) ==
    /\ ~crashed
    /\ nextSocket <= MaxSessions
    /\ LET id == nextSocket
           spawn == Spawn(xz)
           ps == [s \in DOMAIN players \cup {id} |->
                     IF s = id THEN spawn ELSE players[s]]
       IN /\ players' = ps
          /\ connected' = connected \cup {id}
          /\ nextSocket' = nextSocket + 1
          /\ emitted' =
               << Emit("initState", {id},
                       [selfId |-> id, players |-> ps, builds |-> builds]),
                  Emit("playerJoined", connected,
                       [id |-> id, x |-> spawn.x, y |-> spawn.y, z |-> spawn.z,
                        rotationY |-> spawn.rotationY, health |-> spawn.health]) >>
          /\ last' = Handler("connect", id, FALSE, NoHit)
    /\ UNCHANGED <<builds, nextBuildId, crashed>>

\* mutant of HasPlayer: the handler does not test for the Player
HasPlayerUnchecked(s) == TRUE
\* const p = world.players[socket.id]; if (!p) return;
HasPlayer(s) == s \in DOMAIN players

\* socket.on('move')
Move(s, data) ==
    /\ ~crashed
    /\ s \in Sockets
    /\ IF ~HasPlayer(s)
         THEN Discard("move", s, MoveMalformed(data))
       ELSE IF ~data.defined \/ s \notin DOMAIN players
         \* data.x of undefined, or p.x = ... on undefined, is a TypeError
         THEN Throw("move", s)
       ELSE /\ players' = [players EXCEPT ![s] =
                   [@ EXCEPT !.x = clamp(data.x), !.y = clamp(data.y),
                             !.z = clamp(data.z), !.rotationY = data.rotationY]]
            /\ emitted' = << >>
            /\ last' = Handler("move", s, MoveMalformed(data), NoHit)
            /\ UNCHANGED <<builds, nextBuildId, nextSocket, connected, crashed>>

\* ------------------------------------------------------ hit resolution
\* const ray = {ox, oy, oz, dx, dy, dz}
Ray(data) ==
    [ox |-> data.origin[1], oy |-> data.origin[2], oz |-> data.origin[3],
     dx |-> data.direction[1], dy |-> data.direction[2], dz |-> data.direction[3]]

\* NaN or undefined anywhere in the arithmetic makes disc and t NaN
Numeric(pl, ray) ==
    /\ IsNum(pl.x) /\ IsNum(pl.y) /\ IsNum(pl.z)
    /\ IsNum(ray.ox) /\ IsNum(ray.oy) /\ IsNum(ray.oz)
    /\ IsNum(ray.dx) /\ IsNum(ray.dy) /\ IsNum(ray.dz)

\* The sphere has radius 0.5 and centre (x, y + 0.5, z).  With oc2 = 2 * oc
\* (integers) the code's quantities are
\*   a = |d|^2,  b = 2 (oc . d) = oc2 . d,  c = (|oc2|^2 - 1) / 4,
\*   disc = b^2 - 4 a c = b^2 - a (|oc2|^2 - 1)
QuadA(ray) == ray.dx * ray.dx + ray.dy * ray.dy + ray.dz * ray.dz
Oc2(pl, ray) ==
    << 2 * (ray.ox - pl.x), 2 * (ray.oy - pl.y) - 1, 2 * (ray.oz - pl.z) >>
QuadB(pl, ray) ==
    LET oc2 == Oc2(pl, ray)
    IN oc2[1] * ray.dx + oc2[2] * ray.dy + oc2[3] * ray.dz
QuadC4(pl, ray) ==
    LET oc2 == Oc2(pl, ray)
    IN oc2[1] * oc2[1] + oc2[2] * oc2[2] + oc2[3] * oc2[3] - 1
Disc(pl, ray) ==
    QuadB(pl, ray) * QuadB(pl, ray) - QuadA(ray) * QuadC4(pl, ray)

\* mutant of TPositive: the quotient with a = 0 counts as 0 and the test
\* is t >= 0
TNotNegative(pl, ray) ==
    LET b == QuadB(pl, ray)
    IN b <= 0 /\ b * b >= Disc(pl, ray)
\* t = (-b - Math.sqrt(disc)) / (2*a) > 0, for disc >= 0.  With a = 0 the
\* quotient is NaN (b and disc are 0 too) and the comparison is false.
TPositive(pl, ray) ==
    LET b == QuadB(pl, ray)
    IN QuadA(ray) > 0 /\ b < 0 /\ b * b > Disc(pl, ray)

\* D + sqrt(q2) < sqrt(q1), for integers D and q1, q2 >= 0
SumLt(D, q2, q1) ==
    LET E == q1 - q2 - D * D
    IN IF D < 0 /\ D * D > q2 THEN TRUE
       ELSE IF D >= 0 THEN E > 0 /\ 4 * D * D * q2 < E * E
       ELSE E > 0 \/ 4 * D * D * q2 > E * E

\* t of p1 < t of p2 (the same ray, so the same a > 0):
\*   -b1 - sqrt(disc1) < -b2 - sqrt(disc2)
TLess(p1, p2, ray) ==
    SumLt(QuadB(p2, ray) - QuadB(p1, ray), Disc(p2, ray), Disc(p1, ray))

\* mutant of Intersects: the sign of t is not tested
IntersectsBehind(pl, ray) ==
    /\ Numeric(pl, ray)
    /\ Disc(pl, ray) >= 0
\* one candidate of the loop: not skipped by `disc < 0`, and t > 0
Intersects(pl, ray) ==
    /\ Numeric(pl, ray)
    /\ Disc(pl, ray) >= 0
    /\ TPositive(pl, ray)

\* for (const [id, pl] of Object.entries(world.players)): ids ascending;
\* hitId is the candidate that holds `closest`, NoHit while it is Infinity
RECURSIVE hitLoop(_, _, _, _, _)
hitLoop(id, self, ray, ps, hitId) ==
    IF id > MaxSessions THEN hitId
    ELSE IF id \notin DOMAIN ps \/ id = self
      THEN hitLoop(id + 1, self, ray, ps, hitId)
    ELSE IF /\ Intersects(ps[id], ray)
            /\ (hitId = NoHit \/ TLess(ps[id], ps[hitId], ray))
      THEN hitLoop(id + 1, self, ray, ps, id)
    ELSE hitLoop(id + 1, self, ray, ps, hitId)

\* mutant of resolveHit: the first candidate in iteration order wins
resolveHitFirst(self, ray, ps) ==
    LET C == { id \in DOMAIN ps \ {self} : Intersects(ps[id], ray) }
    IN IF C = {} THEN NoHit ELSE CHOOSE id \in C : \A j \in C : id <= j
resolveHit(self, ray, ps) == hitLoop(1, self, ray, ps, NoHit)

\* mutant of Room: io.emit instead of io.to(id).emit
RoomOfAll(id) == connected
\* io.to(id): the room of socket id, empty once it has disconnected
Room(id) == {id} \cap connected

\* mutant of Respawns: the test is `< 0`
RespawnsBelowZero(health) == health < 0
\* if (victim.health <= 0), read after victim.health -= 20
Respawns(health) == health <= 0

\* mutant of Damaged: the hit takes twice the damage
DamagedDouble(pl, xz) ==
    LET h == pl.health - 2 * DAMAGE
    IN IF Respawns(h)
         THEN [pl EXCEPT !.x = xz[1], !.y = SPAWN_Y, !.z = xz[2],
                         !.health = FULL_HEALTH]
       ELSE [pl EXCEPT !.health = h]
\* the victim after victim.health -= 20 and, at 0 or below, the respawn
Damaged(pl, xz) ==
    LET h == pl.health - DAMAGE
    IN IF Respawns(h)
         THEN [pl EXCEPT !.x = xz[1], !.y = SPAWN_Y, !.z = xz[2],
                         !.health = FULL_HEALTH]
       ELSE [pl EXCEPT !.health = h]

\* mutant of HitEvents: playerHit is emitted in an else branch only
HitEventsElse(hitId, before, victim) ==
    IF Respawns(before.health - DAMAGE)
      THEN << Emit("respawn", Room(hitId),
                   [x |-> victim.x, y |-> victim.y, z |-> victim.z]) >>
    ELSE << Emit("playerHit", connected,
                 [victimId |-> hitId, newHealth |-> victim.health]) >>
\* the emits of the `if (hitId)` block
HitEvents(hitId, before, victim) ==
    (IF Respawns(before.health - DAMAGE)
       THEN << Emit("respawn", Room(hitId),
                    [x |-> victim.x, y |-> victim.y, z |-> victim.z]) >>
     ELSE << >>)
    \o << Emit("playerHit", connected,
               [victimId |-> hitId, newHealth |-> victim.health]) >>

\* the pairs Math.random() may give: drawn only when the hit respawns
RespawnXZ(pl) == IF Respawns(pl.health - DAMAGE) THEN SpawnXZ ELSE { <<0, 0>> }

\* socket.on('shoot')
Shoot(s, data) ==
    /\ ~crashed
    /\ s \in Sockets
    /\ IF ~HasPlayer(s)
         THEN Discard("shoot", s, ShootMalformed(data))
       ELSE IF ShootMalformed(data)
         THEN Throw("shoot", s)
       ELSE LET hitId == resolveHit(s, Ray(data), players)
            IN IF hitId = NoHit
                 THEN Discard("shoot", s, FALSE)
               ELSE \E xz \in RespawnXZ(players[hitId]) :
                      LET victim == Damaged(players[hitId], xz)
                      IN /\ players' = [players EXCEPT ![hitId] = victim]
                         /\ emitted' = HitEvents(hitId, players[hitId], victim)
                         /\ last' = Handler("shoot", s, FALSE, hitId)
                         /\ UNCHANGED <<builds, nextBuildId, nextSocket,
                                        connected, crashed>>

\* mutant of NextId: the counter is not advanced
NextIdStuck(n) == n
\* nextBuildId++
NextId(n) == n + 1

\* mutant of NewBuild: rotY is stored as it came
NewBuildRawRot(s, data) ==
    [id |-> nextBuildId, ownerId |-> s, type |-> data.type,
     x |-> clamp(data.x), y |-> clamp(data.y), z |-> clamp(data.z),
     rotY |-> data.rotY]
\* the object literal of socket.on('placeBuild')
NewBuild(s, data) ==
    [id |-> nextBuildId, ownerId |-> s, type |-> data.type,
     x |-> clamp(data.x), y |-> clamp(data.y), z |-> clamp(data.z),
     rotY |-> RotYOrZero(data.rotY)]

\* socket.on('placeBuild'): no test that the socket still has a Player
PlaceBuild(s, data) ==
    /\ ~crashed
    /\ s \in Sockets
    /\ nextBuildId <= MaxBuildId
    /\ IF ~data.defined
         THEN Throw("placeBuild", s)
       ELSE /\ builds' = Append(builds, NewBuild(s, data))
            /\ nextBuildId' = NextId(nextBuildId)
            /\ emitted' = << Emit("buildPlaced", connected, NewBuild(s, data)) >>
            /\ last' = Handler("placeBuild", s, BuildMalformed(data), NoHit)
            /\ UNCHANGED <<players, nextSocket, connected, crashed>>

\* delete world.players[socket.id]
WithoutPlayer(ps, s) == [k \in DOMAIN ps \ {s} |-> ps[k]]

\* mutant of WithoutBuildsOf: the builds are kept
KeepBuilds(bs, s) == bs
\* world.builds.filter(b => b.ownerId !== socket.id)
WithoutBuildsOf(bs, s) ==
    LET Keep(b) == b.ownerId # s
    IN SelectSeq(bs, Keep)

\* socket.on('disconnect'): the socket has left its rooms when it runs
Disconnect(s) ==
    /\ ~crashed
    /\ s \in connected
    /\ players' = WithoutPlayer(players, s)
    /\ builds' = WithoutBuildsOf(builds, s)
    /\ connected' = connected \ {s}
    /\ emitted' = << Emit("playerLeft", connected \ {s}, s) >>
    /\ last' = Handler("disconnect", s, FALSE, NoHit)
    /\ UNCHANGED <<nextBuildId, nextSocket, crashed>>

\* mutant of Tick: an empty world is not published
TickIfAny ==
    /\ ~crashed
    /\ emitted' = (IF players = << >> /\ builds = << >> THEN << >>
                   ELSE << Emit("worldState", connected,
                                [players |-> players, builds |-> builds]) >>)
    /\ last' = Handler("tick", 0, FALSE, NoHit)
    /\ UNCHANGED <<players, builds, nextBuildId, nextSocket, connected, crashed>>
\* setInterval(..., 1000 / 20)
Tick ==
    /\ ~crashed
    /\ emitted' = << Emit("worldState", connected,
                          [players |-> players, builds |-> builds]) >>
    /\ last' = Handler("tick", 0, FALSE, NoHit)
    /\ UNCHANGED <<players, builds, nextBuildId, nextSocket, connected, crashed>>

\* The record of the hits on each Player of the world since the Player was
\* created: the health the `if (hitId)` block left in the store and whether
\* it emitted a respawn.
Observe ==
    [p \in DOMAIN players' |->
        IF p \notin DOMAIN players THEN << >>
        ELSE IF last'.op = "shoot" /\ last'.hitId = p
          THEN Append(observed[p],
                      [health |-> players'[p].health,
                       respawn |-> \E i \in 1..Len(emitted') :
                                       emitted'[i].event = "respawn"])
        ELSE observed[p]]

\* One event of the loop: handlers run to completion, one at a time.
Step(max, handler) ==
    /\ steps < max
    /\ steps' = steps + 1
    /\ handler
    /\ observed' = Observe
    /\ client' = client

\* every handler on every payload, commands of closed sockets included
Next ==
    \/ \E xz \in SpawnXZ : Step(MaxSteps, Connect(xz))
    \/ \E s \in Sessions, data \in MovePayloads : Step(MaxSteps, Move(s, data))
    \/ \E s \in Sessions, data \in ShootPayloads : Step(MaxSteps, Shoot(s, data))
    \/ \E s \in Sessions, data \in BuildPayloads :
          Step(MaxSteps, PlaceBuild(s, data))
    \/ \E s \in Sessions : Step(MaxSteps, Disconnect(s))
    \/ Step(MaxSteps, Tick)

Spec == Init /\ [][Next]_vars

\* the same handlers on the payloads a well-behaved client sends while it
\* is connected
DuelNext ==
    \/ \E xz \in SpawnXZ : Step(MaxDuelSteps, Connect(xz))
    \/ \E s \in connected : Step(MaxDuelSteps, Move(s, FarMove))
    \/ \E s \in connected, data \in {AlongZShot, ZeroDirShot} :
          Step(MaxDuelSteps, Shoot(s, data))
    \/ \E s \in connected : Step(MaxDuelSteps, PlaceBuild(s, WallBuild))
    \/ \E s \in connected : Step(MaxDuelSteps, Disconnect(s))
    \/ Step(MaxDuelSteps, Tick)

SpecDuel == Init /\ [][DuelNext]_vars

\* The shoot handler on players that stand at drawn positions: every
\* session connected, at full health, nothing built.
InitAim ==
    /\ players \in
         { [s \in Sessions |->
               [x |-> pos[s][1], y |-> pos[s][2], z |-> pos[s][3],
                rotationY |-> 0, health |-> FULL_HEALTH]] :
           pos \in [Sessions -> AimPositions] }
    /\ builds = << >>
    /\ nextBuildId = 1
    /\ nextSocket = MaxSessions + 1
    /\ connected = Sessions
    /\ crashed = FALSE
    /\ emitted = << >>
    /\ last = Handler("start", 0, FALSE, NoHit)
    /\ steps = 0
    /\ observed = [s \in Sessions |-> << >>]
    /\ client = ClientStart

AimNext ==
    \E s \in connected, data \in AimShots : Step(MaxAimSteps, Shoot(s, data))

SpecAim == InitAim /\ [][AimNext]_vars

\* ------------------------------------------------------------- client
\* BUILD_COLORS[build.type] || '#777'
BuildColor(type) ==
    IF type = "wall" THEN "#888"
    ELSE IF type = "floor" THEN "#777"
    ELSE IF type = "ramp" THEN "#666"
    ELSE IF type = "roof" THEN "#555"
    ELSE "#777"

\* a + (b - a) * 0.2, exact when b - a is a multiple of 5
Lerp(a, b) == a + ((b - a) \div 5)

\* new THREE.Mesh(...) with its position, rotation.y and colour set
Mesh(uid, kind, of, x, y, z, rotY, color) ==
    [uid |-> uid, kind |-> kind, of |-> of, x |-> x, y |-> y, z |-> z,
     rotY |-> rotY, color |-> color]

\* table[id] = mesh
Put(table, id, uid) ==
    [k \in DOMAIN table \cup {id} |-> IF k = id THEN uid ELSE table[k]]

\* function addRemotePlayer(id, data)
addRemotePlayer(c, id, data) ==
    LET uid == c.created + 1
    IN [c EXCEPT !.created = uid,
                 !.scene = Append(@, Mesh(uid, "player", id, data.x, data.y,
                                          data.z, 0, "#0077ff")),
                 !.otherPlayers = Put(@, id, uid)]

\* function addMyPlayer(id, data), with setHealth(data.health)
addMyPlayer(c, id, data) ==
    LET uid == c.created + 1
    IN [c EXCEPT !.created = uid,
                 !.scene = Append(@, Mesh(uid, "player", id, data.x, data.y,
                                          data.z, 0, "#00ff00")),
                 !.myMesh = uid,
                 !.myId = id,
                 !.myHealth = Max2(0, Min2(FULL_HEALTH, data.health))]

\* mutant of addBuild: no test for a mesh that is already there
addBuildAgain(c, build) ==
    LET uid == c.created + 1
    IN [c EXCEPT !.created = uid,
                 !.scene = Append(@, Mesh(uid, "build", build.id, build.x,
                                          build.y, build.z,
                                          RotYOrZero(build.rotY),
                                          BuildColor(build.type))),
                 !.builds = Put(@, build.id, uid)]
\* function addBuild(build)
addBuild(c, build) ==
    IF build.id \in DOMAIN c.builds THEN c
    ELSE LET uid == c.created + 1
         IN [c EXCEPT !.created = uid,
                      !.scene = Append(@, Mesh(uid, "build", build.id, build.x,
                                               build.y, build.z,
                                               RotYOrZero(build.rotY),
                                               BuildColor(build.type))),
                      !.builds = Put(@, build.id, uid)]

\* data.builds.forEach(addBuild), from element i on
RECURSIVE forEachAddBuild(_, _, _)
forEachAddBuild(c, bs, i) ==
    IF i > Len(bs) THEN c ELSE forEachAddBuild(addBuild(c, bs[i]), bs, i + 1)

\* the loop of initState over Object.entries(data.players), from id on
RECURSIVE addPlayers(_, _, _)
addPlayers(c, ps, id) ==
    IF id > MaxSessions THEN c
    ELSE IF id \notin DOMAIN ps THEN addPlayers(c, ps, id + 1)
    ELSE IF id = c.myId THEN addPlayers(addMyPlayer(c, id, ps[id]), ps, id + 1)
    ELSE addPlayers(addRemotePlayer(c, id, ps[id]), ps, id + 1)

\* mesh.position.lerp(new THREE.Vector3(p.x, p.y, p.z), 0.2) and
\* mesh.rotation.y = lerpAngle(mesh.rotation.y, p.rotationY, 0.2)
Lerped(scene, uid, p) ==
    [i \in 1..Len(scene) |->
        IF scene[i].uid = uid
          THEN [scene[i] EXCEPT !.x = Lerp(@, p.x), !.y = Lerp(@, p.y),
                                !.z = Lerp(@, p.z), !.rotY = Lerp(@, p.rotationY)]
        ELSE scene[i]]

\* the loop of worldState over Object.entries(state.players), from id on
RECURSIVE updatePlayers(_, _, _)
updatePlayers(c, ps, id) ==
    IF id > MaxSessions THEN c
    ELSE IF id \notin DOMAIN ps \/ id = c.myId THEN updatePlayers(c, ps, id + 1)
    ELSE IF id \notin DOMAIN c.otherPlayers
      THEN updatePlayers(addRemotePlayer(c, id, ps[id]), ps, id + 1)
    ELSE updatePlayers(
             [c EXCEPT !.scene = Lerped(@, c.otherPlayers[id], ps[id])],
             ps, id + 1)

\* socket.on('initState') of the client
OnInitState(data) ==
    client' = forEachAddBuild(
                  addPlayers([client EXCEPT !.myId = data.selfId],
                             data.players, 1),
                  data.builds, 1)

\* socket.on('worldState') of the client
OnWorldState(state) ==
    client' = forEachAddBuild(updatePlayers(client, state.players, 1),
                              state.builds, 1)

\* socket.on('buildPlaced') of the client
OnBuildPlaced(build) == client' = addBuild(client, build)

\* What the server sends to the page of socket 1 while its player and the
\* player of socket 2 stand where they spawned: the Build of each id as
\* the placeBuild handler stored it, and the build sequences that hold
\* some of them in ascending id order.
SentPlayers == [s \in {1, 2} |-> Spawn(IF s = 1 THEN <<0, 0>> ELSE <<-15, 14>>)]
SentBuild(id) ==
    [id |-> id, ownerId |-> 2, type |-> IF id = 1 THEN "wall" ELSE "tower",
     x |-> clamp(5 * id), y |-> 1, z |-> clamp(-60), rotY |-> 0]
SentBuildSeqs ==
    { LET Held(b) == b.id \in S
      IN SelectSeq([i \in 1..MaxBuildId |-> SentBuild(i)], Held) :
      S \in SUBSET (1..MaxBuildId) }

\* one delivery to the page: the server's state plays no part in it
Deliver(handler) ==
    /\ steps < MaxClientSteps
    /\ steps' = steps + 1
    /\ handler
    /\ UNCHANGED <<players, builds, nextBuildId, nextSocket, connected,
                   crashed, emitted, last, observed>>

\* initState, worldState and buildPlaced deliveries in any order and any
\* number, as after reconnections of the page's socket
ClientNext ==
    \/ \E bs \in SentBuildSeqs :
          Deliver(OnInitState([selfId |-> 1, players |-> SentPlayers,
                               builds |-> bs]))
    \/ \E bs \in SentBuildSeqs :
          Deliver(OnWorldState([players |-> SentPlayers, builds |-> bs]))
    \/ \E id \in 1..MaxBuildId : Deliver(OnBuildPlaced(SentBuild(id)))

SpecClient == Init /\ [][ClientNext]_vars

\* ------------------------------------------------------------- claims
World == <<players, builds, nextBuildId>>
InArena(v) == IsNum(v) /\ -ARENA_LIMIT <= v /\ v <= ARENA_LIMIT
HealthShown(h) == 0 < h /\ h <= FULL_HEALTH
EventsNamed(evs, name) == { i \in 1..Len(evs) : evs[i].event = name }
StaleSocket(s) == s \in Sockets /\ s \notin connected

\* C1: every stored Player has x, y and z within [-50, 50], whatever the
\* move commands carried.
C1_PlayersInArena ==
    \A s \in DOMAIN players :
        InArena(players[s].x) /\ InArena(players[s].y) /\ InArena(players[s].z)

\* C2: health is within (0, 100] in every state between handlers, in every
\* playerHit payload and in every snapshot (worldState, initState): a 0 is
\* replaced by the respawn's 100 inside the shoot handler.
C2_HealthNeverZero ==
    /\ \A s \in DOMAIN players : HealthShown(players[s].health)
    /\ \A i \in 1..Len(emitted) :
         /\ emitted[i].event = "playerHit"
              => HealthShown(emitted[i].data.newHealth)
         /\ emitted[i].event \in {"worldState", "initState"}
              => \A s \in DOMAIN emitted[i].data.players :
                     HealthShown(emitted[i].data.players[s].health)

\* C2 witness: a hit has just taken a victim from 20 to the respawn's 100.
C2_RespawnSeen ==
    /\ last.op = "shoot" /\ last.hitId # NoHit
    /\ EventsNamed(emitted, "respawn") # {}
    /\ players[last.hitId].health = FULL_HEALTH

\* C3: every Build's ownerId is the id of a Player in world.players, also
\* when commands of a socket are delivered after its disconnect.
C3_NoOrphanBuilds ==
    \A i \in 1..Len(builds) : builds[i].ownerId \in DOMAIN players

\* C4: a placeBuild from a socket without a Player is discarded: builds and
\* nextBuildId are unchanged and nothing is emitted.
C4_StalePlaceBuildDiscarded ==
    [][ (last'.op = "placeBuild" /\ ~crashed' /\ last'.sid \notin DOMAIN players)
          => (builds' = builds /\ nextBuildId' = nextBuildId /\ emitted' = << >>)
      ]_vars

\* C5: build ids strictly increase in creation order and are never reused:
\* the sequence is in ascending id order, every id in it is below the
\* counter, the counter never goes back, and a build whose id was already
\* handed out is a build that was already there.
C5_BuildIdsIncrease ==
    [][ ~crashed' =>
          /\ nextBuildId' >= nextBuildId
          /\ \A i, j \in 1..Len(builds') : i < j => builds'[i].id < builds'[j].id
          /\ \A j \in 1..Len(builds') :
               /\ builds'[j].id < nextBuildId'
               /\ builds'[j].id < nextBuildId
                    => \E i \in 1..Len(builds) : builds[i] = builds'[j]
      ]_vars

\* C5 witness: build 1 went with its owner's disconnect, and a placement by
\* a connected player then got id 2.
C5_PlacedAfterRemoval ==
    /\ last.op = "placeBuild" /\ last.sid \in DOMAIN players
    /\ Len(builds) = 1 /\ builds[1].id = 2

\* C6: disconnect of S removes exactly the Player of S and exactly the
\* Builds owned by S; the other Players, the other Builds (in their order)
\* and the counter are unchanged.
C6_DisconnectRemovesExactly ==
    [][ last'.op = "disconnect" =>
          LET S == last'.sid
          IN /\ DOMAIN players' = DOMAIN players \ {S}
             /\ \A k \in DOMAIN players' : players'[k] = players[k]
             /\ \A j \in 1..Len(builds') :
                  /\ builds'[j].ownerId # S
                  /\ \E i \in 1..Len(builds) : builds[i] = builds'[j]
             /\ \A i \in 1..Len(builds) :
                  builds[i].ownerId # S
                    => \E j \in 1..Len(builds') : builds'[j] = builds[i]
             /\ \A j1, j2 \in 1..Len(builds') :
                  j1 < j2 =>
                    \E i1, i2 \in 1..Len(builds) :
                        /\ i1 < i2
                        /\ builds[i1] = builds'[j1]
                        /\ builds[i2] = builds'[j2]
             /\ nextBuildId' = nextBuildId
      ]_vars

\* C6 witness: two builds were placed, a disconnect has just run, and one
\* player with one build is left.
C6_DisconnectWithBuilds ==
    /\ last.op = "disconnect"
    /\ nextBuildId = 3 /\ Len(builds) = 1
    /\ Cardinality(DOMAIN players) = 1
    /\ builds[1].ownerId \in DOMAIN players

\* C7: a malformed move, shoot or placeBuild changes nothing in the world
\* and does not end the server.
C7_MalformedAbsorbed ==
    [][ last'.malformed => (World' = World /\ ~crashed') ]_vars

\* C8: a move or shoot from a socket without a Player changes nothing,
\* emits nothing and raises no error.
C8_StaleMoveShootDiscarded ==
    [][ (last'.op \in {"move", "shoot"} /\ last'.sid \notin DOMAIN players)
          => (World' = World /\ emitted' = << >> /\ ~crashed')
      ]_vars

\* C8 witness: a move or shoot of a closed socket has just been handled
\* while another player is in the world.
C8_StaleCommandHandled ==
    /\ last.op \in {"move", "shoot"}
    /\ StaleSocket(last.sid)
    /\ ~crashed
    /\ DOMAIN players # {}

\* C9: every shoot that resolves a victim takes exactly 20 from the victim's
\* health (100 when that reaches 0) and emits exactly one playerHit, to all
\* connected sockets, with the victim's id and its stored health.
C9_HitDamageAndEvent ==
    [][ (last'.op = "shoot" /\ last'.hitId # NoHit) =>
          LET v == last'.hitId
              hits == EventsNamed(emitted', "playerHit")
          IN /\ v \in DOMAIN players /\ v \in DOMAIN players'
             /\ players'[v].health =
                  (IF players[v].health - 20 <= 0 THEN 100
                   ELSE players[v].health - 20)
             /\ Cardinality(hits) = 1
             /\ \A i \in hits :
                  /\ emitted'[i].to = connected'
                  /\ emitted'[i].data =
                       [victimId |-> v, newHealth |-> players'[v].health]
      ]_vars

\* C9 witness: a hit that respawned its victim, with a playerHit of 100.
C9_HitWithRespawn ==
    /\ last.op = "shoot" /\ last.hitId # NoHit
    /\ EventsNamed(emitted, "respawn") # {}
    /\ \E i \in EventsNamed(emitted, "playerHit") :
           emitted[i].data.newHealth = 100

\* C10: a respawn event is emitted exactly when a shot brings its victim's
\* health to 0 or below; it goes to the victim's socket only and carries
\* the victim's newly stored position.
C10_RespawnToVictimOnly ==
    [][ LET resp == EventsNamed(emitted', "respawn")
            hit == last'.op = "shoot" /\ last'.hitId # NoHit
        IN /\ resp # {} => hit
           /\ hit => LET v == last'.hitId
                     IN /\ resp # {} <=> players[v].health - 20 <= 0
                        /\ Cardinality(resp) <= 1
                        /\ \A i \in resp :
                             /\ emitted'[i].to = {v}
                             /\ emitted'[i].data =
                                  [x |-> players'[v].x, y |-> players'[v].y,
                                   z |-> players'[v].z]
      ]_vars

\* C10 witness: a respawn event was sent while the shooter, another socket,
\* is connected.
C10_RespawnSent ==
    /\ last.op = "shoot" /\ last.hitId # NoHit
    /\ EventsNamed(emitted, "respawn") # {}
    /\ Cardinality(connected) >= 2
    /\ last.sid # last.hitId

\* C11: the hits on a player since its spawn at health 100 show, in order,
\* the healths 80, 60, 40, 20, 100, and of the first five hits only the
\* fifth emits a respawn.
C11_FiveHitsOneRespawn ==
    \A p \in DOMAIN observed :
        \A i \in 1..Len(observed[p]) :
            i <= 5 =>
              /\ observed[p][i].health = <<80, 60, 40, 20, 100>>[i]
              /\ observed[p][i].respawn = (i = 5)

\* C11 witness: a player has taken its fifth hit.
C11_FifthHitTaken ==
    \E p \in DOMAIN observed :
        /\ Len(observed[p]) = 5
        /\ last.op = "shoot" /\ last.hitId = p

\* C12: a disconnect of S emits playerLeft for S once, to all the sessions
\* that remain, and no worldState of a later tick holds a Player of a
\* session that has disconnected or a Build owned by one.
C12_LeftAndGoneFromSnapshots ==
    [][ /\ last'.op = "disconnect" =>
              LET left == EventsNamed(emitted', "playerLeft")
              IN /\ Cardinality(left) = 1
                 /\ \A i \in left :
                      /\ emitted'[i].data = last'.sid
                      /\ emitted'[i].to = connected \ {last'.sid}
        /\ last'.op = "tick" =>
              \A i \in EventsNamed(emitted', "worldState") :
                  \A s \in Sockets \ connected :
                      /\ s \notin DOMAIN emitted'[i].data.players
                      /\ \A j \in 1..Len(emitted'[i].data.builds) :
                             emitted'[i].data.builds[j].ownerId # s
      ]_vars

\* the integer square root of a perfect square
ISqrt(n) == CHOOSE k \in 0..n : k * k = n
\* twice the vector from the ray's origin to the centre (x, y + 0.5, z)
ToCentre2(pl, ray) ==
    << 2 * (pl.x - ray.ox), 2 * pl.y + 1 - 2 * ray.oy, 2 * (pl.z - ray.oz) >>
Dot(u, v) == u[1] * v[1] + u[2] * v[2] + u[3] * v[3]
Dir(ray) == << ray.dx, ray.dy, ray.dz >>
\* the discriminant b^2 - 4ac of |o + t d - centre|^2 = 0.25, in the units
\* b = -ToCentre2 . d, 4c = |ToCentre2|^2 - 1
Discriminant(pl, ray) ==
    LET w == ToCentre2(pl, ray)
    IN Dot(w, Dir(ray)) * Dot(w, Dir(ray))
         - Dot(Dir(ray), Dir(ray)) * (Dot(w, w) - 1)
\* 2a times the smaller root t = (-b - sqrt(disc)) / 2a
SmallerRoot2a(pl, ray) ==
    Dot(ToCentre2(pl, ray), Dir(ray)) - ISqrt(Discriminant(pl, ray))
\* the candidates of the claim: non-negative discriminant, t > 0
Qualifies(pl, ray) ==
    /\ Dot(Dir(ray), Dir(ray)) > 0
    /\ Discriminant(pl, ray) >= 0
    /\ SmallerRoot2a(pl, ray) > 0

\* C13: the victim of a shoot is never the shooter; it is, of the other
\* players whose sphere the ray meets with discriminant >= 0 and smaller
\* root t > 0, one with the smallest t; it is nobody when there is none.
C13_NearestOtherPlayer ==
    [][ \A s \in Sessions, data \in AimShots :
          (last'.sid = s /\ Shoot(s, data)) =>
            LET ray == Ray(data)
                r == last'.hitId
                C == { q \in DOMAIN players \ {s} : Qualifies(players[q], ray) }
            IN /\ r # s
               /\ IF C = {} THEN r = NoHit
                  ELSE /\ r \in C
                       /\ \A q \in C : SmallerRoot2a(players[r], ray)
                                          <= SmallerRoot2a(players[q], ray)
      ]_vars

\* C13 witness: a shot has hit the nearer of two players on its ray, the
\* one that comes later in the iteration, while the shooter stands on the
\* ray too.
C13_NearerOfTwoHit ==
    /\ last.op = "shoot" /\ last.hitId = 3 /\ last.sid = 2
    /\ Qualifies(players[3], Ray(UpShot))
    /\ Qualifies(players[1], Ray(UpShot))
    /\ Qualifies(players[2], Ray(UpShot))
    /\ SmallerRoot2a(players[3], Ray(UpShot))
         < SmallerRoot2a(players[1], Ray(UpShot))
    /\ players[3].health = FULL_HEALTH - DAMAGE

Cross(u, v) ==
    << u[2] * v[3] - u[3] * v[2], u[3] * v[1] - u[1] * v[3],
       u[1] * v[2] - u[2] * v[1] >>
\* the direction has a positive component toward the centre of pl
Toward(pl, ray) == Dot(ToCentre2(pl, ray), Dir(ray)) > 0
\* the direction has a positive component away from the centre of pl
Away(pl, ray) == Dot(ToCentre2(pl, ray), Dir(ray)) < 0
\* the centre of pl is at most 0.5 from the line of the ray:
\* |oc x d| <= 0.5 |d|
WithinRadius(pl, ray) ==
    LET n == Cross(ToCentre2(pl, ray), Dir(ray))
    IN Dot(n, n) <= Dot(Dir(ray), Dir(ray))
\* the origin of the ray is more than 0.5 from the centre of pl
OriginOutside(pl, ray) ==
    Dot(ToCentre2(pl, ray), ToCentre2(pl, ray)) > 1
\* the other players the ray points toward and passes within 0.5 of
Aimed(s, ray, ps) ==
    { q \in DOMAIN ps \ {s} : Toward(ps[q], ray) /\ WithinRadius(ps[q], ray) }

\* C14 as stated: a shoot whose ray points toward exactly one other player
\* within 0.5 of its line hits that player, and a shoot whose ray points
\* away from every other player hits nobody.
C14_TowardHitsAwayMisses ==
    [][ \A s \in Sessions, data \in AimShots :
          (last'.sid = s /\ Shoot(s, data)) =>
            LET T == Aimed(s, Ray(data), players)
            IN /\ Cardinality(T) = 1 => last'.hitId \in T
               /\ (\A q \in DOMAIN players \ {s} : Away(players[q], Ray(data)))
                    => last'.hitId = NoHit
      ]_vars

\* C14 amended: the same, for a ray whose origin is outside the sphere of
\* the player it points toward (a ray that starts on or inside the sphere
\* has its smaller root t <= 0 and hits nobody).
C14_TowardFromOutsideHits ==
    [][ \A s \in Sessions, data \in AimShots :
          (last'.sid = s /\ Shoot(s, data)) =>
            LET T == Aimed(s, Ray(data), players)
            IN /\ (/\ Cardinality(T) = 1
                   /\ \A q \in T : OriginOutside(players[q], Ray(data)))
                    => last'.hitId \in T
               /\ (\A q \in DOMAIN players \ {s} : Away(players[q], Ray(data)))
                    => last'.hitId = NoHit
      ]_vars

\* C14 witness: a shot has hit the one player that the slanted ray points
\* toward, from outside that player's sphere.
C14_SingleAimedHit ==
    /\ last.op = "shoot" /\ last.hitId # NoHit
    /\ Aimed(last.sid, Ray(SlantShot), players) = {last.hitId}
    /\ OriginOutside(players[last.hitId], Ray(SlantShot))
    /\ players[last.hitId].health = FULL_HEALTH - DAMAGE

\* C15: a shoot whose direction is the zero vector selects no victim,
\* wherever the players stand: no player changes, nothing is emitted and
\* the handler does not throw.
C15_ZeroDirectionNoHit ==
    [][ \A s \in Sessions, data \in AimShots :
          (data.direction = <<0, 0, 0>> /\ last'.sid = s /\ Shoot(s, data)) =>
            /\ last'.hitId = NoHit
            /\ World' = World
            /\ emitted' = << >>
            /\ ~crashed'
      ]_vars

\* C15 witness: a shoot has been handled without a victim while another
\* player stands where the origin of the zero-direction shot from (0, 1, 0)
\* is on its sphere, and a third on the line of the other one.
C15_NoVictimAtOrigin ==
    /\ last.op = "shoot" /\ last.hitId = NoHit /\ ~crashed
    /\ emitted = << >>
    /\ \E q \in DOMAIN players \ {last.sid} :
           ~OriginOutside(players[q], Ray(ZeroDirFeetShot))
    /\ \E q \in DOMAIN players \ {last.sid} :
           WithinRadius(players[q], Ray(AlongZShot))
    /\ \A q \in DOMAIN players : players[q].health = FULL_HEALTH

\* C16: every tick, also one that follows a tick with nothing in between,
\* emits exactly one worldState, to all connected sessions, whose players
\* and builds are those of the world, and leaves players, builds and
\* nextBuildId unchanged.
C16_TickPublishesSnapshot ==
    [][ last'.op = "tick" =>
          /\ Len(emitted') = 1
          /\ emitted'[1].event = "worldState"
          /\ emitted'[1].to = connected
          /\ emitted'[1].data = [players |-> players, builds |-> builds]
          /\ World' = World
          /\ connected' = connected
      ]_vars

\* C16 witness: a tick has published a world with a player and a build and
\* the step budget allows a further tick, which finds the world as the
\* previous tick left it.
C16_TickAfterTick ==
    /\ last.op = "tick" /\ steps < MaxSteps
    /\ DOMAIN players # {} /\ builds # << >>
    /\ Len(emitted) = 1
    /\ emitted[1].data = [players |-> players, builds |-> builds]

\* C17: a connection of N creates the Player of N with health 100, y = 1,
\* rotationY 0 and x, z within [-15, 15] and changes no other Player;
\* initState goes to N only, with N's id, all players (N's included) and
\* all builds; playerJoined for N, with the spawn attributes, goes to every
\* other connected session and not to N.
C17_ConnectSpawnsAndAnnounces ==
    [][ last'.op = "connect" =>
          LET N == last'.sid
              init == EventsNamed(emitted', "initState")
              joined == EventsNamed(emitted', "playerJoined")
          IN /\ DOMAIN players' = DOMAIN players \cup {N}
             /\ N \notin DOMAIN players
             /\ \A k \in DOMAIN players : players'[k] = players[k]
             /\ players'[N].health = 100 /\ players'[N].y = 1
             /\ players'[N].rotationY = 0
             /\ -15 <= players'[N].x /\ players'[N].x <= 15
             /\ -15 <= players'[N].z /\ players'[N].z <= 15
             /\ builds' = builds
             /\ Len(emitted') = 2
             /\ Cardinality(init) = 1 /\ Cardinality(joined) = 1
             /\ \A i \in init :
                  /\ emitted'[i].to = {N}
                  /\ emitted'[i].data =
                       [selfId |-> N, players |-> players', builds |-> builds']
             /\ \A i \in joined :
                  /\ emitted'[i].to = connected' \ {N}
                  /\ emitted'[i].data =
                       [id |-> N, x |-> players'[N].x, y |-> players'[N].y,
                        z |-> players'[N].z,
                        rotationY |-> players'[N].rotationY,
                        health |-> players'[N].health]
      ]_vars

\* C17 witness: a session has connected at the edge of the spawn square
\* while another session was connected and a build was in the world.
C17_JoinedOccupiedWorld ==
    /\ last.op = "connect"
    /\ players[last.sid].x = -15
    /\ connected \ {last.sid} # {}
    /\ builds # << >>
    /\ \E i \in EventsNamed(emitted, "playerJoined") :
           emitted[i].to = connected \ {last.sid}

\* C18: every stored Build has x, y and z within [-50, 50], whatever the
\* placeBuild commands carried (a command with x = 1000 is stored with
\* x = 50).
C18_BuildsInArena ==
    \A i \in 1..Len(builds) :
        InArena(builds[i].x) /\ InArena(builds[i].y) /\ InArena(builds[i].z)

\* C19: the process starts with build id 1 to hand out, and every
\* placeBuild that is carried out appends exactly one Build to the end of
\* builds (its owner the placing session, its id the next one, its rotY 0
\* when the command gave none) and emits exactly one buildPlaced, with that
\* stored Build, to all connected sessions, the placer among them.
C19_PlaceAppendsAndAnnounces ==
    /\ nextBuildId = 1 /\ builds = << >>
    /\ [][ \A s \in Sessions, data \in BuildPayloads :
              (PlaceBuild(s, data) /\ ~crashed') =>
                LET b == builds'[Len(builds')]
                IN /\ Len(builds') = Len(builds) + 1
                   /\ \A i \in 1..Len(builds) : builds'[i] = builds[i]
                   /\ b.ownerId = s
                   /\ b.id = nextBuildId /\ nextBuildId' = nextBuildId + 1
                   /\ builds = << >> /\ nextBuildId = 1 => b.id = 1
                   /\ b.type = data.type
                   /\ data.rotY = Undefined => b.rotY = 0
                   /\ IsNum(data.rotY) => b.rotY = data.rotY
                   /\ Len(emitted') = 1
                   /\ emitted'[1].event = "buildPlaced"
                   /\ emitted'[1].data = b
                   /\ emitted'[1].to = connected
                   /\ s \in connected => s \in emitted'[1].to
                   /\ players' = players
          ]_vars

\* C19 witness: a connected session, with another one connected, has placed
\* the first build of the process without a rotation, and the buildPlaced
\* event went to both.
C19_FirstWallPlaced ==
    /\ last.op = "placeBuild" /\ last.sid \in connected
    /\ Cardinality(connected) >= 2
    /\ Len(builds) = 1 /\ builds[1].id = 1 /\ builds[1].rotY = 0
    /\ builds[1].type = "wall" /\ builds[1].ownerId = last.sid
    /\ emitted = << Emit("buildPlaced", connected, builds[1]) >>

\* C20: every stored Build has a type that is one of wall, floor, ramp,
\* roof, whatever type the placeBuild commands carried.
C20_BuildTypesKnown ==
    \A i \in 1..Len(builds) : builds[i].type \in BUILD_TYPES

\* C21: a shoot that resolves no victim leaves players, builds and
\* nextBuildId unchanged and emits nothing; a shoot that resolves a victim
\* changes only that victim's health and, when it respawns, its position:
\* the shooter, every other Player, the victim's rotationY, the builds and
\* nextBuildId are unchanged.
C21_ShootTouchesVictimOnly ==
    [][ (last'.op = "shoot" /\ ~crashed') =>
          LET v == last'.hitId
          IN IF v = NoHit
               THEN World' = World /\ emitted' = << >>
             ELSE /\ v # last'.sid
                  /\ DOMAIN players' = DOMAIN players
                  /\ \A k \in DOMAIN players \ {v} : players'[k] = players[k]
                  /\ players'[v].rotationY = players[v].rotationY
                  /\ players'[v].health # players[v].health
                  /\ EventsNamed(emitted', "respawn") = {}
                       => /\ players'[v].x = players[v].x
                          /\ players'[v].y = players[v].y
                          /\ players'[v].z = players[v].z
                  /\ builds' = builds
                  /\ nextBuildId' = nextBuildId
                  /\ connected' = connected
      ]_vars

\* C21 witness: a shot has hit one of three players while a build was in
\* the world.
C21_HitAmongThree ==
    /\ last.op = "shoot" /\ last.hitId # NoHit
    /\ Cardinality(DOMAIN players) = 3
    /\ builds # << >>
    /\ players[last.hitId].health = FULL_HEALTH - DAMAGE
    /\ players[last.sid].health = FULL_HEALTH

\* the meshes of the scene made for build id
MeshesOf(c, id) ==
    { i \in 1..Len(c.scene) : c.scene[i].kind = "build" /\ c.scene[i].of = id }
BuildMeshes(c) ==
    { c.scene[i] : i \in { j \in 1..Len(c.scene) : c.scene[j].kind = "build" } }
AllHeld(c, bs) == \A i \in 1..Len(bs) : bs[i].id \in DOMAIN c.builds

\* C22: whatever initState, worldState and buildPlaced deliveries a page
\* gets, in any order and repeated, its scene holds at most one mesh per
\* build id, the one its build table names, and a delivery that carries
\* only builds the table already holds leaves the table and the build
\* meshes unchanged.
C22_AddBuildIdempotent ==
    [][ /\ \A id \in 1..MaxBuildId :
             /\ Cardinality(MeshesOf(client', id)) <= 1
             /\ id \in DOMAIN client'.builds <=> MeshesOf(client', id) # {}
             /\ \A i \in MeshesOf(client', id) :
                    client'.builds[id] = client'.scene[i].uid
        /\ \A id \in DOMAIN client.builds :
             id \in DOMAIN client'.builds /\ client'.builds[id] = client.builds[id]
        /\ \A bs \in SentBuildSeqs :
             (/\ AllHeld(client, bs)
              /\ \/ OnInitState([selfId |-> 1, players |-> SentPlayers,
                                  builds |-> bs])
                 \/ OnWorldState([players |-> SentPlayers, builds |-> bs])
                 \/ \E i \in 1..Len(bs) : OnBuildPlaced(bs[i]))
               => /\ client'.builds = client.builds
                  /\ BuildMeshes(client') = BuildMeshes(client)
      ]_vars

\* C22 witness: after an initState and two more deliveries the page holds
\* both builds, build 2 made before build 1, with one mesh each, and four
\* player meshes, so that two of the three deliveries were snapshots.
C22_BothBuildsOnce ==
    /\ steps = 3 /\ client.myId = 1
    /\ DOMAIN client.builds = {1, 2}
    /\ client.builds[2] < client.builds[1]
    /\ Cardinality(BuildMeshes(client)) = 2
    /\ client.created = 6

=============================================================================
